---- MODULE Spec2Model ----
(***************************************************************************)
(* A model of cocotb's regression orchestrator, src/cocotb/regression.py:  *)
(* the Test descriptor, RegressionManager (registration, filtering,        *)
(* ordering, the sequential execution loop, scoring, recording, teardown). *)
(* Methods are operators over a record holding the manager's fields and    *)
(* the collaborators they change (xunit reporter, scheduler, simulator,    *)
(* log); every action applies one entry point as a whole.                  *)
(***************************************************************************)
EXTENDS Integers, Sequences, FiniteSets, TLC

\* ------------------------------------------------------------------ bounds
MaxTests == 3        \* Test descriptors constructed in one process
MaxStage == 1        \* stages are drawn from 0..MaxStage
MaxAborts == 1       \* externally initiated _tear_down calls
MaxModules == 2      \* modules handed to discover_tests
MaxModuleTests == 2  \* tests declared in one module
MaxFilterCalls == 2  \* filter_tests calls
MaxAddOptions == 3   \* add_option calls on one TestFactory
MaxGenerations == 2  \* generate_tests calls on one TestFactory
MaxDuration == 10    \* durations handed to _safe_divide: 0..MaxDuration
MaxTimeout == 3      \* timeout_time is drawn from 1..MaxTimeout
MaxConstructions == 6  \* descriptors constructed when classes are told apart

\* ------------------------------------------------- exception kinds, outcomes
\* The class of a raised exception and its base classes (itself included).
Ancestors(kind) ==
    CASE kind = "SimFailure"        -> {"SimFailure", "Exception", "BaseException"}
      [] kind = "AssertionError"    -> {"AssertionError", "Exception", "BaseException"}
      [] kind = "TypeError"         -> {"TypeError", "Exception", "BaseException"}
      [] kind = "ValueError"        -> {"ValueError", "Exception", "BaseException"}
      [] kind = "TestSuccess"       -> {"TestSuccess", "Exception", "BaseException"}
      [] kind = "Failed"            -> {"Failed", "BaseException"}
      [] kind = "KeyboardInterrupt" -> {"KeyboardInterrupt", "BaseException"}
      [] kind = "SystemExit"        -> {"SystemExit", "BaseException"}
      [] OTHER                      -> {kind, "BaseException"}

\* isinstance(result, types), types being a set of classes (a tuple in the code)
IsInstance(kind, types) == (Ancestors(kind) \cap types) # {}

\* What a test body can raise; "Value" is Outcome's success case.
ErrorKinds == {"SimFailure", "AssertionError", "Failed", "TypeError", "ValueError",
               "TestSuccess", "KeyboardInterrupt", "SystemExit"}
Outcomes == {"Value"} \cup ErrorKinds

\* the classes _score_test treats as a failed functional check
AssertionStyle == {"AssertionError", "Failed"}

\* classes a test may declare in expect_error (Type[Exception])
DeclarableErrors == {"SimFailure", "AssertionError", "TypeError", "Exception"}

\* ------------------------------------------------------------ _score_test
NoError == "none"

\* lines 436-443: outcome.get() under try/except; KeyboardInterrupt and
\* SystemExit are re-raised, any other exception becomes the result, and a
\* normal return becomes TestSuccess().
ScoreResult(outcome) == IF outcome = "Value" THEN "TestSuccess" ELSE outcome

\* _score_test re-raising SimFailure as it re-raises KeyboardInterrupt
ScoreTestReraiseSimFailure(test, outcome) ==
    IF outcome \in {"KeyboardInterrupt", "SystemExit", "SimFailure"}
    THEN [raised |-> outcome, pass |-> TRUE, sim_failed |-> FALSE]
    ELSE LET result == ScoreResult(outcome)
             success == IsInstance(result, {"TestSuccess"})
         IN  IF success
             THEN [raised |-> NoError,
                   pass |-> ~test.expect_fail /\ test.expect_error = {},
                   sim_failed |-> FALSE]
             ELSE IF IsInstance(result, AssertionStyle) /\ test.expect_fail
             THEN [raised |-> NoError, pass |-> TRUE, sim_failed |-> FALSE]
             ELSE [raised |-> NoError,
                   pass |-> IsInstance(result, test.expect_error),
                   sim_failed |-> FALSE]

\* _score_test without the expect_fail branch for failed functional checks
ScoreTestNoExpectFail(test, outcome) ==
    IF outcome \in {"KeyboardInterrupt", "SystemExit"}
    THEN [raised |-> outcome, pass |-> TRUE, sim_failed |-> FALSE]
    ELSE LET result == ScoreResult(outcome)
             success == IsInstance(result, {"TestSuccess"})
         IN  IF success
             THEN [raised |-> NoError,
                   pass |-> ~test.expect_fail /\ test.expect_error = {},
                   sim_failed |-> FALSE]
             ELSE [raised |-> NoError,
                   pass |-> IsInstance(result, test.expect_error),
                   sim_failed |-> IsInstance(result, {"SimFailure"})]

\* _score_test comparing the exception's class with the declared classes
\* instead of using isinstance
ScoreTestExactType(test, outcome) ==
    IF outcome \in {"KeyboardInterrupt", "SystemExit"}
    THEN [raised |-> outcome, pass |-> TRUE, sim_failed |-> FALSE]
    ELSE LET result == ScoreResult(outcome)
             success == IsInstance(result, {"TestSuccess"})
         IN  IF success
             THEN [raised |-> NoError,
                   pass |-> ~test.expect_fail /\ test.expect_error = {},
                   sim_failed |-> FALSE]
             ELSE IF IsInstance(result, {"SimFailure"})
             THEN [raised |-> NoError,
                   pass |-> result \in test.expect_error,
                   sim_failed |-> TRUE]
             ELSE IF IsInstance(result, AssertionStyle) /\ test.expect_fail
             THEN [raised |-> NoError, pass |-> TRUE, sim_failed |-> FALSE]
             ELSE [raised |-> NoError,
                   pass |-> result \in test.expect_error,
                   sim_failed |-> FALSE]

\* _score_test passing any raised failure of a test with expect_fail
ScoreTestAnyFailurePasses(test, outcome) ==
    IF outcome \in {"KeyboardInterrupt", "SystemExit"}
    THEN [raised |-> outcome, pass |-> TRUE, sim_failed |-> FALSE]
    ELSE LET result == ScoreResult(outcome)
             success == IsInstance(result, {"TestSuccess"})
         IN  IF success
             THEN [raised |-> NoError,
                   pass |-> ~test.expect_fail /\ test.expect_error = {},
                   sim_failed |-> FALSE]
             ELSE IF IsInstance(result, {"SimFailure"})
             THEN [raised |-> NoError,
                   pass |-> IsInstance(result, test.expect_error),
                   sim_failed |-> TRUE]
             ELSE IF test.expect_fail
             THEN [raised |-> NoError, pass |-> TRUE, sim_failed |-> FALSE]
             ELSE [raised |-> NoError,
                   pass |-> IsInstance(result, test.expect_error),
                   sim_failed |-> FALSE]

\* _score_test with sim_failed set only in the branch of an unexpected
\* SimFailure
ScoreTestFatalIfUnexpected(test, outcome) ==
    IF outcome \in {"KeyboardInterrupt", "SystemExit"}
    THEN [raised |-> outcome, pass |-> TRUE, sim_failed |-> FALSE]
    ELSE LET result == ScoreResult(outcome)
             success == IsInstance(result, {"TestSuccess"})
         IN  IF success
             THEN [raised |-> NoError,
                   pass |-> ~test.expect_fail /\ test.expect_error = {},
                   sim_failed |-> FALSE]
             ELSE IF IsInstance(result, {"SimFailure"})
             THEN [raised |-> NoError,
                   pass |-> IsInstance(result, test.expect_error),
                   sim_failed |-> ~IsInstance(result, test.expect_error)]
             ELSE IF IsInstance(result, AssertionStyle) /\ test.expect_fail
             THEN [raised |-> NoError, pass |-> TRUE, sim_failed |-> FALSE]
             ELSE [raised |-> NoError,
                   pass |-> IsInstance(result, test.expect_error),
                   sim_failed |-> FALSE]

\* _score_test(test, outcome) -> (result_pass, sim_failed); raised is the
\* exception that leaves the method instead of a return value.
ScoreTest(test, outcome) ==
    IF outcome \in {"KeyboardInterrupt", "SystemExit"}
    THEN [raised |-> outcome, pass |-> TRUE, sim_failed |-> FALSE]
    ELSE LET result == ScoreResult(outcome)
             success == IsInstance(result, {"TestSuccess"})
         IN  IF success /\ ~test.expect_fail /\ test.expect_error = {}
             THEN [raised |-> NoError, pass |-> TRUE, sim_failed |-> FALSE]
             ELSE IF success /\ test.expect_error # {}
             THEN [raised |-> NoError, pass |-> FALSE, sim_failed |-> FALSE]
             ELSE IF success
             THEN [raised |-> NoError, pass |-> FALSE, sim_failed |-> FALSE]
             ELSE IF IsInstance(result, {"SimFailure"})
             THEN [raised |-> NoError,
                   pass |-> IsInstance(result, test.expect_error),
                   sim_failed |-> TRUE]
             ELSE IF IsInstance(result, AssertionStyle) /\ test.expect_fail
             THEN [raised |-> NoError, pass |-> TRUE, sim_failed |-> FALSE]
             ELSE IF test.expect_error # {}
             THEN [raised |-> NoError,
                   pass |-> IsInstance(result, test.expect_error),
                   sim_failed |-> FALSE]
             ELSE [raised |-> NoError, pass |-> FALSE, sim_failed |-> FALSE]

\* ------------------------------------------------------------ _safe_divide
\* a / b as a float: the quotient is kept as the pair it is computed from.
SafeDivideNanOnZero(a, b) ==
    IF b # 0 THEN [kind |-> "num", num |-> a, den |-> b]
    ELSE [kind |-> "nan", num |-> 0, den |-> 0]

SafeDivide(a, b) ==
    IF b # 0 THEN [kind |-> "num", num |-> a, den |-> b]
    ELSE IF a = 0 THEN [kind |-> "nan", num |-> 0, den |-> 0]
    ELSE [kind |-> "inf", num |-> 0, den |-> 0]

\* repr(0), the ratio_time the excluded and skipped entries carry
ZeroRatio == [kind |-> "num", num |-> 0, den |-> 1]

\* ------------------------------------------------------------------- Test
NoTest == [id |-> -1]
NoTask == -1
NoTime == -1
NoMark == <<-1, -1>>

\* f"{module}.{name}": every descriptor of the model lives in one module and
\* is named after its position, so fullnames are unique.
FullName(i) == <<"tests", i>>

\* Test.__init__: the descriptor with the id the class counter hands out.
Test(id, stage, skip, expect_fail, expect_error) ==
    [id |-> id, stage |-> stage, skip |-> skip, expect_fail |-> expect_fail,
     expect_error |-> expect_error, fullname |-> FullName(id)]

\* ------------------------------------------------ Test.__init__: the id
\* Test and a class derived from it. _id_count is a class attribute: Test
\* has it from the class body, a derived class has none of its own until an
\* assignment through that class makes one.
Classes == {"Test", "DerivedTest"}
NoAttribute == -1
ClassAttributes == [c \in Classes |-> IF c = "Test" THEN 0 ELSE NoAttribute]

\* attribute lookup of _id_count on an instance of cls or on cls itself
IdCountOf(counts, cls) ==
    IF counts[cls] # NoAttribute THEN counts[cls] ELSE counts["Test"]

\* self._id = self._id_count; type(self)._id_count += 1
AssignId(counts, cls) ==
    [id |-> IdCountOf(counts, cls),
     counts |-> [counts EXCEPT ![cls] = IdCountOf(counts, cls) + 1]]

\* --------------------------------------- Test.__init__: the timeout wrapper
\* What a unit or an awaited call ends with: a return value, or the kind of
\* the exception it raises.
Returned(v) == [raised |-> NoError, value |-> v]
Raised(k) == [raised |-> k, value |-> 0]
NoOutcome == [raised |-> "pending", value |-> 0]

\* The units the scheduler holds while the wrapper runs: the unit the
\* wrapper makes of the original body, and the other units of the run.
InnerUnit == "running_co"
OtherUnits == {"forked", "monitor"}
Units == {InnerUnit} \cup OtherUnits

\* Task.kill(): a pending unit is killed, a finished one is left as it is
Kill(units, u) ==
    IF units[u].status = "pending"
    THEN [units EXCEPT ![u] = [status |-> "killed", outcome |-> NoOutcome]]
    ELSE units

\* cocotb.triggers.with_timeout(running_co, timeout_time, timeout_unit) once
\* the race is decided: SimTimeoutError when the timer fired first, else what
\* the awaited unit ended with
WithTimeout(units, first) ==
    IF first = "timer" THEN Raised("SimTimeoutError")
    ELSE units[InnerUnit].outcome

WrappedFuncKillsAll(units, first) ==
    LET res == WithTimeout(units, first)
        RECURSIVE KillAll(_, _)
        KillAll(us, todo) ==
            IF todo = {} THEN us
            ELSE LET u == CHOOSE x \in todo : TRUE
                 IN  KillAll(Kill(us, u), todo \ {u})
    IN  IF res.raised = "SimTimeoutError"
        THEN [units |-> KillAll(units, Units), kills |-> <<InnerUnit>>,
              outcome |-> res]
        ELSE [units |-> units, kills |-> <<>>, outcome |-> res]

\* the wrapped func from the await on: except SimTimeoutError kills
\* running_co and re-raises, anything else is passed on
WrappedFunc(units, first) ==
    LET res == WithTimeout(units, first)
    IN  IF res.raised = "SimTimeoutError"
        THEN [units |-> Kill(units, InnerUnit), kills |-> <<InnerUnit>>,
              outcome |-> res]
        ELSE [units |-> units, kills |-> <<>>, outcome |-> res]

\* ------------------------------------------------------ RegressionManager
\* The state the manager's methods act on: its own fields (lines 198-212),
\* the XUnitReporter it owns, and the collaborators it calls: the scheduler
\* (units handed to _add_test and not yet completed), the simulator
\* (stop_simulator calls), the log (summaries emitted) and the two clocks.
\* popped, invoked, submitted, drained and teardown_calls record the calls
\* made, fatal_mark is <<Len(invoked), Len(submitted)>> when the first
\* SimFailure outcome was recorded, and raised is the exception leaving the
\* entry point being run.
\* a case element without failure element has no message; the message of
\* a failure element is kept as the seed it names
NoMessage == -1
\* xunit.add_testcase(...): one case element
TestCase(test, wall, sim, ratio) ==
    [name |-> test.fullname, time |-> wall, sim_time_ns |-> sim,
     ratio_time |-> ratio, failure |-> FALSE, message |-> NoMessage,
     skipped |-> FALSE]

\* xunit.add_failure(...) / xunit.add_skipped(): mark the last case element
AddFailure(xunit, message) ==
    [xunit EXCEPT ![Len(xunit)].failure = TRUE, ![Len(xunit)].message = message]
AddSkipped(xunit) == [xunit EXCEPT ![Len(xunit)].skipped = TRUE]

\* _next_test: pop the head of the queue, or None
NextTest(m) ==
    IF m.test_queue = <<>>
    THEN [m |-> m, test |-> NoTest]
    ELSE [m |-> [m EXCEPT !.test_queue = Tail(@),
                          !.popped = Append(@, Head(m.test_queue).id)],
          test |-> Head(m.test_queue)]

\* _record_test_excluded counting the test as skipped
RecordTestExcludedCounted(m, test) ==
    [m EXCEPT !.xunit = AddSkipped(Append(@, TestCase(test, 0, 0, ZeroRatio))),
              !.skipped = @ + 1,
              !.count = @ + 1]

\* _record_test_excluded
RecordTestExcluded(m, test) ==
    [m EXCEPT !.xunit = AddSkipped(Append(@, TestCase(test, 0, 0, ZeroRatio)))]

\* _record_test_skipped without the entry in the result log
RecordTestSkippedNoLog(m, test) ==
    [m EXCEPT !.xunit = AddSkipped(Append(@, TestCase(test, 0, 0, ZeroRatio))),
              !.skipped = @ + 1,
              !.count = @ + 1]

\* _record_test_skipped
RecordTestSkipped(m, test) ==
    [m EXCEPT !.xunit = AddSkipped(Append(@, TestCase(test, 0, 0, ZeroRatio))),
              !.test_results = Append(@, [test |-> test.fullname, pass |-> "None",
                                          sim |-> 0, real |-> 0]),
              !.events = Append(@, <<"result", test.id>>),
              !.skipped = @ + 1,
              !.count = @ + 1]

\* _log_test_summary: nothing is logged for an empty result list
LogTestSummary(m) ==
    IF Len(m.test_results) = 0 THEN m
    ELSE [m EXCEPT !.summaries = @ + 1,
                   !.events = Append(@, <<"summary",
                                          m.passed + m.failures + m.skipped>>)]

\* self.xunit.write()
XunitWrite(m) ==
    [m EXCEPT !.xunit_written = @ + 1, !.events = Append(@, <<"write", 0>>)]

\* simulator.stop_simulator()
StopSimulator(m) ==
    [m EXCEPT !.sim_stopped = @ + 1, !.events = Append(@, <<"stop", 0>>)]

RECURSIVE TearDown(_), RecordResult(_, _, _, _, _), FailRemaining(_)

\* the drain recording a test with the skip flag as skipped
RECURSIVE FailRemainingSkipAware(_)
FailRemainingSkipAware(m) ==
    LET nxt == NextTest(m)
        marked == [nxt.m EXCEPT !.drained = Append(@, nxt.test.id)]
    IN  IF nxt.test = NoTest THEN nxt.m
        ELSE IF nxt.test.skip
        THEN FailRemainingSkipAware(RecordTestSkipped(marked, nxt.test))
        ELSE LET rec == RecordResult(marked, nxt.test, "SimFailure", 0, 0)
             IN  IF rec.raised # NoError THEN rec
                 ELSE FailRemainingSkipAware(rec)

\* _tear_down lines 348-355: fail remaining tests
FailRemaining(m) ==
    LET nxt == NextTest(m)
    IN  IF nxt.test = NoTest THEN nxt.m
        ELSE LET rec == RecordResult([nxt.m EXCEPT !.drained = Append(@, nxt.test.id)],
                                     nxt.test, "SimFailure", 0, 0)
             IN  IF rec.raised # NoError THEN rec ELSE FailRemaining(rec)

\* _tear_down without its latch
TearDownNoLatch(m0) ==
    LET m == [m0 EXCEPT !.teardown_calls = @ + 1]
        drained == FailRemaining([m EXCEPT !.tearing_down = TRUE])
    IN  IF drained.raised # NoError THEN drained
        ELSE StopSimulator(XunitWrite(LogTestSummary(drained)))

\* _tear_down stopping the simulator before it fails the remaining tests
TearDownStopFirst(m0) ==
    LET m == [m0 EXCEPT !.teardown_calls = @ + 1]
    IN  IF m.tearing_down THEN m
        ELSE LET drained == FailRemaining(StopSimulator(
                                [m EXCEPT !.tearing_down = TRUE]))
             IN  IF drained.raised # NoError THEN drained
                 ELSE XunitWrite(LogTestSummary(drained))

\* _tear_down
TearDown(m0) ==
    LET m == [m0 EXCEPT !.teardown_calls = @ + 1]
    IN  IF m.tearing_down THEN m
        ELSE LET drained == FailRemaining([m EXCEPT !.tearing_down = TRUE])
             IN  IF drained.raised # NoError THEN drained
                 ELSE StopSimulator(XunitWrite(LogTestSummary(drained)))

\* _record_result without the teardown on a failed simulation
RecordResultNoTearDown(m, test, outcome, wall_time_s, sim_time_ns) ==
    LET ratio_time == SafeDivide(sim_time_ns, wall_time_s)
        cased == [m EXCEPT !.xunit = Append(@, TestCase(test, wall_time_s,
                                                        sim_time_ns, ratio_time))]
        score == ScoreTest(test, outcome)
    IN  IF score.raised # NoError THEN [cased EXCEPT !.raised = score.raised]
        ELSE [(IF ~score.pass
               THEN [cased EXCEPT !.xunit = AddFailure(@, m.RANDOM_SEED),
                                      !.failures = @ + 1]
               ELSE [cased EXCEPT !.passed = @ + 1])
              EXCEPT !.count = @ + 1,
                     !.test_results =
                         Append(@, [test |-> test.fullname,
                                    pass |-> IF score.pass THEN "True" ELSE "False",
                                    sim |-> sim_time_ns, real |-> wall_time_s,
                                    ratio |-> ratio_time]),
                     !.events = Append(@, <<"result", test.id>>),
                     !.fatal_mark =
                         IF @ = NoMark /\ IsInstance(ScoreResult(outcome), {"SimFailure"})
                         THEN <<Len(m.invoked), Len(m.submitted)>> ELSE @]

\* _record_result
RecordResult(m, test, outcome, wall_time_s, sim_time_ns) ==
    LET ratio_time == SafeDivide(sim_time_ns, wall_time_s)
        cased == [m EXCEPT !.xunit = Append(@, TestCase(test, wall_time_s,
                                                        sim_time_ns, ratio_time))]
        score == ScoreTest(test, outcome)
    IN  IF score.raised # NoError THEN [cased EXCEPT !.raised = score.raised]
        ELSE LET counted ==
                   IF ~score.pass
                   THEN [cased EXCEPT !.xunit = AddFailure(@, m.RANDOM_SEED),
                                      !.failures = @ + 1]
                   ELSE [cased EXCEPT !.passed = @ + 1]
                 logged ==
                   [counted EXCEPT !.count = @ + 1,
                                   !.test_results =
                                       Append(@, [test |-> test.fullname,
                                                  pass |-> IF score.pass THEN "True"
                                                           ELSE "False",
                                                  sim |-> sim_time_ns,
                                                  real |-> wall_time_s,
                                                  ratio |-> ratio_time]),
                                   !.events = Append(@, <<"result", test.id>>)]
                 marked ==
                   IF logged.fatal_mark = NoMark
                      /\ IsInstance(ScoreResult(outcome), {"SimFailure"})
                   THEN [logged EXCEPT !.fatal_mark = <<Len(logged.invoked),
                                                        Len(logged.submitted)>>]
                   ELSE logged
             IN  IF score.sim_failed THEN TearDown(marked) ELSE marked

\* int(hashlib.sha1(fullname.encode()).hexdigest(), 16): the digest is not
\* computed; it is a fixed number per fullname, without collisions on the
\* fullnames of the model
Sha1Int(fullname) == ((fullname[2] + 1) * 7) % 11

\* _init_test seeding the generator from the global seed and the number of
\* results so far
InitTestSeedByCount(m, test, init) ==
    IF test.skip
    THEN [m |-> RecordTestSkipped(m, test), task |-> NoTask]
    ELSE LET called == [m EXCEPT !.invoked = Append(@, test.id)]
         IN  IF init # "Value"
             THEN [m |-> RecordResult([called EXCEPT !.init_failed =
                                           Append(@, <<test.id, init>>)],
                                      test, init, 0, 0),
                   task |-> NoTask]
             ELSE [m |-> [called EXCEPT !.seeded =
                              Append(@, <<test.id, m.RANDOM_SEED + m.count>>)],
                   task |-> test.id]

\* _init_test recording every initialization failure as a failed result,
\* whatever the test expects
InitTestFailureAlwaysFails(m, test, init) ==
    IF test.skip
    THEN [m |-> RecordTestSkipped(m, test), task |-> NoTask]
    ELSE LET called == [m EXCEPT !.invoked = Append(@, test.id)]
         IN  IF init # "Value"
             THEN [m |-> RecordResult([called EXCEPT !.init_failed =
                                           Append(@, <<test.id, init>>)],
                                      [test EXCEPT !.expect_fail = FALSE,
                                                   !.expect_error = {}],
                                      init, 0, 0),
                   task |-> NoTask]
             ELSE LET seed == m.RANDOM_SEED + Sha1Int(test.fullname)
                  IN  [m |-> [called EXCEPT !.seeded = Append(@, <<test.id, seed>>)],
                       task |-> test.id]

\* _init_test invoking the body before it looks at the skip flag
InitTestSkipInvoked(m, test, init) ==
    LET called == [m EXCEPT !.invoked = Append(@, test.id)]
    IN  IF test.skip
        THEN [m |-> RecordTestSkipped(called, test), task |-> NoTask]
        ELSE IF init # "Value"
             THEN [m |-> RecordResult([called EXCEPT !.init_failed =
                                           Append(@, <<test.id, init>>)],
                                      test, init, 0, 0),
                   task |-> NoTask]
             ELSE LET seed == m.RANDOM_SEED + Sha1Int(test.fullname)
                  IN  [m |-> [called EXCEPT !.seeded = Append(@, <<test.id, seed>>)],
                       task |-> test.id]

\* _init_test: init is what invoking the test body gives, "Value" (a coroutine)
\* or the exception it raises; the result is the manager and the task or None.
InitTest(m, test, init) ==
    IF test.skip
    THEN [m |-> RecordTestSkipped(m, test), task |-> NoTask]
    ELSE LET called == [m EXCEPT !.invoked = Append(@, test.id)]
         IN  IF init # "Value"
             THEN [m |-> RecordResult([called EXCEPT !.init_failed =
                                           Append(@, <<test.id, init>>)],
                                      test, init, 0, 0),
                   task |-> NoTask]
             ELSE LET seed == m.RANDOM_SEED + Sha1Int(test.fullname)
                  IN  [m |-> [called EXCEPT !.seeded = Append(@, <<test.id, seed>>)],
                       task |-> test.id]

\* _start_test
StartTest(m) ==
    [m EXCEPT !.test_start_time = m.wall_clock,
              !.test_start_sim_time = m.sim_clock,
              !.scheduled = @ \cup {m.test_task},
              !.submitted = Append(@, m.test_task)]

\* _execute going on with the loop after _start_test
RECURSIVE ExecuteNoReturn(_, _)
ExecuteNoReturn(m, inits) ==
    LET nxt == NextTest(m)
        cur == [nxt.m EXCEPT !.test = nxt.test]
    IN  IF nxt.test = NoTest THEN TearDown(cur)
        ELSE LET ini == InitTest(cur, nxt.test, inits[nxt.test.id])
                 tasked == [ini.m EXCEPT !.test_task = ini.task]
             IN  IF ini.m.raised # NoError THEN ini.m
                 ELSE IF ini.task # NoTask
                 THEN ExecuteNoReturn(StartTest(tasked), inits)
                 ELSE ExecuteNoReturn(tasked, inits)

\* _execute returning when a test gave no task
ExecuteStopAtNoTask(m, inits) ==
    LET nxt == NextTest(m)
        cur == [nxt.m EXCEPT !.test = nxt.test]
    IN  IF nxt.test = NoTest THEN TearDown(cur)
        ELSE LET ini == InitTest(cur, nxt.test, inits[nxt.test.id])
                 tasked == [ini.m EXCEPT !.test_task = ini.task]
             IN  IF ini.m.raised # NoError THEN ini.m
                 ELSE IF ini.task # NoTask THEN StartTest(tasked)
                 ELSE tasked

\* _execute: inits[id] is what invoking the body of test id gives
RECURSIVE Execute(_, _)
Execute(m, inits) ==
    LET nxt == NextTest(m)
        cur == [nxt.m EXCEPT !.test = nxt.test]
    IN  IF nxt.test = NoTest THEN TearDown(cur)
        ELSE LET ini == InitTest(cur, nxt.test, inits[nxt.test.id])
                 tasked == [ini.m EXCEPT !.test_task = ini.task]
             IN  IF ini.m.raised # NoError THEN ini.m
                 ELSE IF ini.task # NoTask THEN StartTest(tasked)
                 ELSE Execute(tasked, inits)

\* the sort key without the stage
KeyLessIdOnly(a, b) == a.id < b.id

\* start_regression line 330: list.sort(key=(stage, _id)), a stable sort
KeyLess(a, b) == a.stage < b.stage \/ (a.stage = b.stage /\ a.id < b.id)

RECURSIVE InsertSorted(_, _)
InsertSorted(t, sorted) ==
    IF sorted = <<>> THEN <<t>>
    ELSE IF KeyLess(t, Head(sorted)) THEN <<t>> \o sorted
    ELSE <<Head(sorted)>> \o InsertSorted(t, Tail(sorted))

RECURSIVE SortQueue(_)
SortQueue(q) ==
    IF q = <<>> THEN <<>>
    ELSE InsertSorted(q[Len(q)], SortQueue(SubSeq(q, 1, Len(q) - 1)))

RECURSIVE RecordExclusions(_, _)
RecordExclusions(m, tests) ==
    IF tests = <<>> THEN m
    ELSE RecordExclusions(RecordTestExcluded(m, Head(tests)), Tail(tests))

\* start_regression
StartRegressionOp(m, inits) ==
    LET sorted == [m EXCEPT !.test_queue = SortQueue(@)]
        counted == [sorted EXCEPT !.ntests = Len(sorted.test_queue), !.count = 1]
        excluded == RecordExclusions(counted, counted.filtered_tests)
    IN  Execute([excluded EXCEPT !.regression_start_time = excluded.wall_clock],
                inits)

\* _handle_result returning at once when the regression is torn down
HandleResultNotAfterTearDown(m0, task, outcome, dw, ds, inits) ==
    LET m == [m0 EXCEPT !.scheduled = @ \ {task},
                        !.completed = Append(@, <<task, outcome>>),
                        !.wall_clock = @ + dw, !.sim_clock = @ + ds]
    IN  IF task # m.test_task THEN [m EXCEPT !.raised = "AssertionError"]
        ELSE IF m.tearing_down THEN m
        ELSE LET rec == RecordResult(m, m.test, outcome,
                                     m.wall_clock - m.test_start_time,
                                     m.sim_clock - m.test_start_sim_time)
             IN  IF rec.raised # NoError THEN rec ELSE Execute(rec, inits)

\* _handle_result recording the result without going on to the next test
HandleResultNoExecute(m0, task, outcome, dw, ds, inits) ==
    LET m == [m0 EXCEPT !.scheduled = @ \ {task},
                        !.completed = Append(@, <<task, outcome>>),
                        !.wall_clock = @ + dw, !.sim_clock = @ + ds]
    IN  IF task # m.test_task THEN [m EXCEPT !.raised = "AssertionError"]
        ELSE RecordResult(m, m.test, outcome,
                          m.wall_clock - m.test_start_time,
                          m.sim_clock - m.test_start_sim_time)

\* _handle_result, entered by the scheduler for the completed task: the clocks
\* have moved by (dw, ds) since the unit was submitted.
HandleResultOp(m0, task, outcome, dw, ds, inits) ==
    LET m == [m0 EXCEPT !.scheduled = @ \ {task},
                        !.completed = Append(@, <<task, outcome>>),
                        !.wall_clock = @ + dw, !.sim_clock = @ + ds]
    IN  IF task # m.test_task THEN [m EXCEPT !.raised = "AssertionError"]
        ELSE LET real_time == m.wall_clock - m.test_start_time
                 sim_time_ns == m.sim_clock - m.test_start_sim_time
                 rec == RecordResult(m, m.test, outcome, real_time, sim_time_ns)
             IN  IF rec.raised # NoError THEN rec ELSE Execute(rec, inits)

\* filter_tests: matches(test) says whether some filter is found in the
\* test's fullname (re.search)
RECURSIVE SelectTests(_, _, _)
SelectTests(q, matched, want) ==
    IF q = <<>> THEN <<>>
    ELSE (IF (Head(q).fullname \in matched) = want THEN <<Head(q)>> ELSE <<>>)
         \o SelectTests(Tail(q), matched, want)

\* the fullnames in which re.search finds every one of the filters
MatchedByAll(filters) ==
    {name \in UNION filters : \A f \in filters : name \in f}

\* the fullnames in which re.search finds one of the filters; a filter is
\* modelled by the set of fullnames it is found in
MatchedBy(filters) == UNION filters

FilterTestsOp(m, filters) ==
    [m EXCEPT !.test_queue = SelectTests(m.test_queue, MatchedBy(filters), TRUE),
              !.filtered_tests = SelectTests(m.test_queue, MatchedBy(filters), FALSE)]

\* register_test
RegisterTestOp(m, t) == [m EXCEPT !.test_queue = Append(@, t)]

\* import_module(module_name): the decorated tests of the module are
\* constructed, in source order, with the ids the class counter hands out
ImportModule(mod, idc) ==
    [k \in 1..Len(mod.decls) |->
        Test(idc + k - 1, mod.decls[k].stage, mod.decls[k].skip,
             mod.decls[k].expect_fail, mod.decls[k].expect_error)]

\* for test in mod.__cocotb_tests__: self.register_test(test)
RECURSIVE RegisterAll(_, _)
RegisterAll(m, ts) ==
    IF ts = <<>> THEN m ELSE RegisterAll(RegisterTestOp(m, Head(ts)), Tail(ts))

NoTestsInModule == "RuntimeError: No tests were discovered in module"
NoTestsInAnyModule == "RuntimeError: No tests were discovered in any module"

\* discover_tests(*modules) on d = [m, tests, id_count]: the manager, the
\* descriptors constructed so far and Test._id_count
RECURSIVE DiscoverTestsOp(_, _)
DiscoverTestsOp(d, mods) ==
    IF mods = <<>>
    THEN IF d.m.test_queue = <<>>
         THEN [d EXCEPT !.m.raised = NoTestsInAnyModule]
         ELSE d
    ELSE LET mod == Head(mods)
             made == ImportModule(mod, d.id_count)
             imported == [d EXCEPT !.tests = @ \o made,
                                   !.id_count = @ + Len(made)]
         IN  IF ~mod.has_tests
             THEN [imported EXCEPT !.m.raised = NoTestsInModule]
             ELSE DiscoverTestsOp([imported EXCEPT !.m = RegisterAll(@, made)],
                                  Tail(mods))

\* ------------------------------------------------------------ TestFactory
\* A Python value is a tuple of atoms, a scalar being a tuple of one atom. An
\* option name is [group, names]: a str (group FALSE, one name) or a tuple of
\* names. self.kwargs, an insertion-ordered dict, is a sequence of
\* [name, optionlist] entries with distinct names; a dict of keyword
\* arguments is a function from names to values.
NoKwargs == [n \in {} |-> <<>>]

\* dict.update(other)
DictUpdate(d, other) ==
    [n \in DOMAIN d \cup DOMAIN other |-> IF n \in DOMAIN other THEN other[n] ELSE d[n]]

\* self.kwargs[name] = optionlist: a name already in the dict keeps its place
KwargsSet(kwargs, name, optionlist) ==
    IF \E i \in 1..Len(kwargs) : kwargs[i].name = name
    THEN [i \in 1..Len(kwargs) |->
             IF kwargs[i].name = name
             THEN [name |-> name, optionlist |-> optionlist] ELSE kwargs[i]]
    ELSE Append(kwargs, [name |-> name, optionlist |-> optionlist])

\* add_option assigning before it validates the group
AddOptionAssignFirst(f, name, optionlist) ==
    LET set == [f EXCEPT !.kwargs = KwargsSet(@, name, optionlist)]
    IN  IF name.group
           /\ \E i \in 1..Len(optionlist) : Len(name.names) # Len(optionlist[i])
        THEN [set EXCEPT !.raised = "ValueError"]
        ELSE set

\* add_option(name, optionlist) on the factory f
AddOption(f, name, optionlist) ==
    IF name.group
       /\ \E i \in 1..Len(optionlist) : Len(name.names) # Len(optionlist[i])
    THEN [f EXCEPT !.raised = "ValueError"]
    ELSE [f EXCEPT !.kwargs = KwargsSet(@, name, optionlist)]

\* the product with the first list varying fastest
RECURSIVE ProductFirstFastest(_)
ProductFirstFastest(lists) ==
    IF lists = <<>> THEN << <<>> >>
    ELSE LET n == Len(lists)
             rest == ProductFirstFastest(SubSeq(lists, 1, n - 1))
             last == lists[n]
         IN  [k \in 1..(Len(last) * Len(rest)) |->
                 Append(rest[((k - 1) % Len(rest)) + 1],
                        last[((k - 1) \div Len(rest)) + 1])]

\* itertools.product(*lists): the tuples in order, the last list varying
\* fastest
RECURSIVE Product(_)
Product(lists) ==
    IF lists = <<>> THEN << <<>> >>
    ELSE LET rest == Product(Tail(lists))
             first == Head(lists)
         IN  [k \in 1..(Len(first) * Len(rest)) |->
                 <<first[((k - 1) \div Len(rest)) + 1]>>
                     \o rest[((k - 1) % Len(rest)) + 1]]

\* "%03d" % n, as the sequence of its digits
RECURSIVE Decimal(_)
Decimal(n) == IF n < 10 THEN <<n>> ELSE Append(Decimal(n \div 10), n % 10)
Format03d(n) ==
    LET digits == Decimal(n)
    IN  IF Len(digits) >= 3 THEN digits
        ELSE [i \in 1..(3 - Len(digits)) |-> 0] \o digits

\* "%s%s%s_%03d" % (prefix, test_func_name, postfix, index + 1)
TestName(prefix, test_func_name, postfix, index) ==
    [text |-> <<prefix, test_func_name, postfix, "_">>,
     number |-> Format03d(index + 1)]

\* testoptions_split: the options of one product element, tuples of names
\* split into their names; names[j] is the j-th option name, values[j] its
\* value in this element
RECURSIVE SplitOptions(_, _, _)
SplitOptions(names, values, split) ==
    IF names = <<>> THEN split
    ELSE LET optname == Head(names)
             optvalue == Head(values)
             one == IF ~optname.group
                    THEN [n \in {optname.names[1]} |-> optvalue]
                    ELSE [n \in {optname.names[i] : i \in 1..Len(optname.names)} |->
                             LET last == CHOOSE i \in 1..Len(optname.names) :
                                            /\ optname.names[i] = n
                                            /\ \A j \in (i + 1)..Len(optname.names) :
                                                  optname.names[j] # n
                             IN  <<optvalue[last]>>]
         IN  SplitOptions(Tail(names), Tail(values), DictUpdate(split, one))

\* Test(func=_my_test, name=name, ...) made by _generate_tests: the
\* descriptor and the keyword arguments its body passes to test_function
GeneratedTest(id, name, kwargs) ==
    [id |-> id, name |-> name, kwargs |-> kwargs, stage |-> 0, skip |-> FALSE,
     expect_fail |-> FALSE, expect_error |-> {}]

TestFunctionName == "run_test"

\* _generate_tests with the default arguments: the tests it yields, idc
\* being Test._id_count
GenerateTestsSeq(f, idc) ==
    LET names == [j \in 1..Len(f.kwargs) |-> f.kwargs[j].name]
        lists == [j \in 1..Len(f.kwargs) |-> f.kwargs[j].optionlist]
        elements == Product(lists)
    IN  [k \in 1..Len(elements) |->
            GeneratedTest(idc + k - 1,
                          TestName("", TestFunctionName, "", k - 1),
                          DictUpdate(f.kwargs_constant,
                                     SplitOptions(names, elements[k], NoKwargs)))]

\* the loop of generate_tests: each test is appended to __cocotb_tests__
\* and bound to its name in the module globals
RECURSIVE RegisterGenerated(_, _)
RegisterGenerated(g, made) ==
    IF made = <<>> THEN g
    ELSE LET t == Head(made)
         IN  RegisterGenerated(
                 [g EXCEPT !.overwritten = @ \cup (IF t.name \in DOMAIN g.names
                                                   THEN {t.name} ELSE {}),
                           !.cocotb_tests = Append(@, t),
                           !.names = DictUpdate(@, [n \in {t.name} |-> t])],
                 Tail(made))

\* generate_tests() on the globals g of the calling module
GenerateTests(f, g, idc) ==
    RegisterGenerated([g EXCEPT !.has_tests = TRUE], GenerateTestsSeq(f, idc))

\* ------------------------------------------------------------------ state
VARIABLES
    \* RegressionManager fields
    test, test_task, test_start_time, test_start_sim_time, regression_start_time,
    test_results, ntests, count, passed, skipped, failures, tearing_down,
    test_queue, filtered_tests,
    \* XUnitReporter: case elements added, write() calls
    xunit, xunit_written,
    \* scheduler: units added and not completed; simulator: stop calls;
    \* log: summaries emitted; time.time() and get_sim_time("ns")
    scheduled, sim_stopped, summaries, wall_clock, sim_clock,
    \* history: ids popped by _next_test, ids whose body was invoked, ids
    \* handed to the scheduler, ids failed by _tear_down, _tear_down calls, the
    \* mark of the first fatal outcome, exceptions that left the manager
    popped, invoked, submitted, drained, teardown_calls, fatal_mark, escaped,
    \* cocotb.RANDOM_SEED, and the random.seed(seed) calls as <<test id, seed>>
    RANDOM_SEED, seeded,
    \* history: <<test id, exception>> of the bodies that failed when invoked,
    \* <<task, outcome>> of the units the scheduler completed
    init_failed, completed,
    \* history: <<"result", test id>> for every result appended to the log,
    \* <<"summary", PASS + FAIL + SKIP of its totals line>>, <<"write", 0>>
    \* for xunit.write(), <<"stop", 0>> for stop_simulator(), <<"abort", 0>>
    \* for a _tear_down call from outside the manager, in call order
    events,
    \* Test._id_count and the descriptors constructed so far
    id_count, tests,
    \* ids registered, start_regression called, external aborts, units in
    \* flight when an external abort tore the regression down
    registered, started, aborts, abort_in_flight,
    \* the scorer applied on its own: test, outcome, result
    sc_test, sc_outcome, sc_result,
    \* the modules discover_tests is called with, and whether it was called
    modules, discover_done,
    \* filter_tests calls: the queue before the last call, its filters, the
    \* number of calls
    ft_before, ft_filters, ft_calls,
    \* a TestFactory [kwargs, kwargs_constant]; the globals of the module
    \* calling generate_tests: whether "__cocotb_tests__" is in them, that
    \* list, the tests bound to their names, the names logged as overwritten
    factory, glbs,
    \* the last add_option arguments and the number of calls; the tests of
    \* the last generate_tests call and the number of calls
    tf_last_add, tf_adds, tf_generated, tf_gens,
    \* _safe_divide applied on its own: a, b, the value returned
    sd_a, sd_b, sd_result,
    \* the timeout wrapper on its own: timeout_time, the steps since the
    \* wrapper was invoked, the units of the scheduler as [status, outcome],
    \* which of timer and running_co ended the race, the kill() calls, what
    \* the wrapper ended with
    tw_timeout_time, tw_now, tw_units, tw_first, tw_kills, tw_outcome,
    \* _id_count of each class, and <<class, _id>> of the descriptors
    \* constructed, in construction order
    class_id_count, constructed

mgr_vars == <<test, test_task, test_start_time, test_start_sim_time,
              regression_start_time, test_results, ntests, count, passed, skipped,
              failures, tearing_down, test_queue, filtered_tests, xunit,
              xunit_written, scheduled, sim_stopped, summaries, wall_clock,
              sim_clock, popped, invoked, submitted, drained, teardown_calls,
              fatal_mark, escaped, RANDOM_SEED, seeded, init_failed,
              completed, events>>
setup_vars == <<id_count, tests, registered, started, aborts, abort_in_flight>>
score_vars == <<sc_test, sc_outcome, sc_result>>
disc_vars == <<modules, discover_done>>
filter_vars == <<ft_before, ft_filters, ft_calls>>
factory_vars == <<factory, glbs, tf_last_add, tf_adds, tf_generated, tf_gens>>
divide_vars == <<sd_a, sd_b, sd_result>>
timeout_vars == <<tw_timeout_time, tw_now, tw_units, tw_first, tw_kills,
                  tw_outcome>>
class_vars == <<class_id_count, constructed>>
pure_vars == <<divide_vars, timeout_vars, class_vars>>
side_vars == <<disc_vars, filter_vars, factory_vars, pure_vars>>
vars == <<mgr_vars, setup_vars, score_vars, side_vars>>

\* the manager as the record its methods act on
Self ==
    [test |-> test,
     test_task |-> test_task,
     test_start_time |-> test_start_time,
     test_start_sim_time |-> test_start_sim_time,
     regression_start_time |-> regression_start_time,
     test_results |-> test_results,
     ntests |-> ntests,
     count |-> count,
     passed |-> passed,
     skipped |-> skipped,
     failures |-> failures,
     tearing_down |-> tearing_down,
     test_queue |-> test_queue,
     filtered_tests |-> filtered_tests,
     xunit |-> xunit,
     xunit_written |-> xunit_written,
     scheduled |-> scheduled,
     sim_stopped |-> sim_stopped,
     summaries |-> summaries,
     wall_clock |-> wall_clock,
     sim_clock |-> sim_clock,
     popped |-> popped,
     invoked |-> invoked,
     submitted |-> submitted,
     drained |-> drained,
     teardown_calls |-> teardown_calls,
     fatal_mark |-> fatal_mark,
     RANDOM_SEED |-> RANDOM_SEED,
     seeded |-> seeded,
     init_failed |-> init_failed,
     completed |-> completed,
     events |-> events,
     raised |-> NoError]

\* the state after an entry point returned (or raised) with the manager as m
Commit(m) ==
    /\ test' = m.test
    /\ test_task' = m.test_task
    /\ test_start_time' = m.test_start_time
    /\ test_start_sim_time' = m.test_start_sim_time
    /\ regression_start_time' = m.regression_start_time
    /\ test_results' = m.test_results
    /\ ntests' = m.ntests
    /\ count' = m.count
    /\ passed' = m.passed
    /\ skipped' = m.skipped
    /\ failures' = m.failures
    /\ tearing_down' = m.tearing_down
    /\ test_queue' = m.test_queue
    /\ filtered_tests' = m.filtered_tests
    /\ xunit' = m.xunit
    /\ xunit_written' = m.xunit_written
    /\ scheduled' = m.scheduled
    /\ sim_stopped' = m.sim_stopped
    /\ summaries' = m.summaries
    /\ wall_clock' = m.wall_clock
    /\ sim_clock' = m.sim_clock
    /\ popped' = m.popped
    /\ invoked' = m.invoked
    /\ submitted' = m.submitted
    /\ drained' = m.drained
    /\ teardown_calls' = m.teardown_calls
    /\ fatal_mark' = m.fatal_mark
    /\ RANDOM_SEED' = m.RANDOM_SEED
    /\ seeded' = m.seeded
    /\ init_failed' = m.init_failed
    /\ completed' = m.completed
    /\ events' = m.events
    /\ escaped' = IF m.raised = NoError THEN escaped ELSE escaped \cup {m.raised}

\* ----------------------------------------------------------------- inputs
StageValues == 0..MaxStage
\* (skip, expect_fail, expect_error) of the tests of a regression: plain,
\* skipped, expected to fail, expected to raise an Exception
TestOptions ==
    {[skip |-> FALSE, expect_fail |-> FALSE, expect_error |-> {}],
     [skip |-> TRUE,  expect_fail |-> FALSE, expect_error |-> {}],
     [skip |-> FALSE, expect_fail |-> TRUE,  expect_error |-> {}],
     [skip |-> FALSE, expect_fail |-> FALSE, expect_error |-> {"Exception"}]}
\* what invoking a test body gives: a coroutine, or a synchronous failure
InitResults == {"Value", "TypeError", "SimFailure"}
\* the outcome of a completed unit
RunOutcomes == {"Value", "AssertionError", "SimFailure", "KeyboardInterrupt"}
\* (wall seconds, simulated ns) that pass while a unit runs
ElapsedValues == {<<0, 0>>, <<1, 2>>}

\* the global seed of a run
RandomSeeds == {0, 4}

QueueIds == {test_queue[i].id : i \in 1..Len(test_queue)}
\* a filter pattern, as the set of fullnames it is found in: one pattern per
\* constructed test, found in that test's fullname alone
Patterns == {{tests[i].fullname} : i \in 1..Len(tests)}

NoScore == [raised |-> "unscored", pass |-> FALSE, sim_failed |-> FALSE]

\* ------------------------------------------------------------------- Init
\* RegressionManager.__init__, no Test constructed yet
InitManager ==
    /\ test = NoTest /\ test_task = NoTask
    /\ test_start_time = NoTime /\ test_start_sim_time = NoTime
    /\ regression_start_time = NoTime
    /\ test_results = <<>> /\ ntests = 0 /\ count = 0 /\ passed = 0
    /\ skipped = 0 /\ failures = 0 /\ tearing_down = FALSE
    /\ test_queue = <<>> /\ filtered_tests = <<>>
    /\ xunit = <<>> /\ xunit_written = 0
    /\ scheduled = {} /\ sim_stopped = 0 /\ summaries = 0
    /\ wall_clock = 0 /\ sim_clock = 0
    /\ popped = <<>> /\ invoked = <<>> /\ submitted = <<>> /\ drained = <<>>
    /\ teardown_calls = 0 /\ fatal_mark = NoMark /\ escaped = {}
    /\ RANDOM_SEED \in RandomSeeds /\ seeded = <<>>
    /\ init_failed = <<>> /\ completed = <<>> /\ events = <<>>
    /\ id_count = 0 /\ tests = <<>>
    /\ registered = {} /\ started = FALSE /\ aborts = 0 /\ abort_in_flight = {}

\* the globals of a module no test was added to
NewGlobals == [has_tests |-> FALSE, cocotb_tests |-> <<>>, names |-> NoKwargs,
               overwritten |-> {}]
NoAddOption == [name |-> [group |-> FALSE, names |-> <<>>], optionlist |-> <<>>]

\* TestFactory.__init__(test_function, **kwargs_constant), nothing called yet
InitFactoryVars(kwargs_constant) ==
    /\ factory = [kwargs |-> <<>>, kwargs_constant |-> kwargs_constant]
    /\ glbs = NewGlobals
    /\ tf_last_add = NoAddOption /\ tf_adds = 0
    /\ tf_generated = <<>> /\ tf_gens = 0

\* _safe_divide not called
NoRatio == [kind |-> "none", num |-> 0, den |-> 0]
InitDivide == sd_a = 0 /\ sd_b = 0 /\ sd_result = NoRatio

\* a test without timeout: no wrapper, the other units of the run pending
NotStarted == [status |-> "none", outcome |-> NoOutcome]
Pending == [status |-> "pending", outcome |-> NoOutcome]
InitUnits == [u \in Units |-> IF u = InnerUnit THEN NotStarted ELSE Pending]
InitWrapper(timeout_time) ==
    /\ tw_timeout_time = timeout_time /\ tw_now = 0
    /\ tw_units = InitUnits
    /\ tw_first = "none" /\ tw_kills = <<>> /\ tw_outcome = NoOutcome

\* none of the functions applied on their own is called
InitClasses == class_id_count = ClassAttributes /\ constructed = <<>>

InitPure == InitDivide /\ InitWrapper(0) /\ InitClasses

\* no discover_tests and no filter_tests call yet
InitCalls ==
    /\ modules = <<>> /\ discover_done = FALSE
    /\ ft_before = <<>> /\ ft_filters = {} /\ ft_calls = 0

\* nothing to discover, no filter_tests call yet, a factory without
\* constant arguments
InitSide ==
    /\ InitCalls
    /\ InitFactoryVars(NoKwargs)
    /\ InitPure

Init ==
    /\ InitManager
    /\ sc_test = NoTest /\ sc_outcome = "Value" /\ sc_result = NoScore
    /\ InitSide

\* ---------------------------------------------------------------- actions
\* Test(...): a descriptor is constructed, when its module is imported and
\* before the manager is handed any test
NewTest ==
    /\ ~started
    /\ registered = {}
    /\ id_count < MaxTests
    /\ \E stage \in StageValues, opt \in TestOptions :
          tests' = Append(tests, Test(id_count, stage, opt.skip, opt.expect_fail,
                                      opt.expect_error))
    /\ id_count' = id_count + 1
    /\ UNCHANGED <<mgr_vars, registered, started, aborts, abort_in_flight, score_vars, side_vars>>

\* register_test(test), each descriptor at most once
RegisterTest ==
    /\ ~started
    /\ \E i \in 1..Len(tests) :
          /\ tests[i].id \notin registered
          /\ registered' = registered \cup {tests[i].id}
          /\ Commit(RegisterTestOp(Self, tests[i]))
    /\ UNCHANGED <<id_count, tests, started, aborts, abort_in_flight,
                   score_vars, side_vars>>

\* filter_tests(*filters)
FilterTests ==
    /\ ~started
    /\ \E filters \in SUBSET Patterns : Commit(FilterTestsOp(Self, filters))
    /\ UNCHANGED <<id_count, tests, registered, started, aborts, abort_in_flight,
                   score_vars, side_vars>>

\* start_regression(), once every discovered test is registered
StartRegression ==
    /\ ~started
    /\ registered = {tests[i].id : i \in 1..Len(tests)}
    /\ started' = TRUE
    /\ \E inits \in [QueueIds -> InitResults] :
          Commit(StartRegressionOp(Self, inits))
    /\ UNCHANGED <<id_count, tests, registered, aborts, abort_in_flight, score_vars, side_vars>>

\* the scheduler completes a unit and calls _handle_result(task)
HandleResult ==
    /\ \E task \in scheduled, outcome \in RunOutcomes,
          dt \in ElapsedValues, inits \in [QueueIds -> InitResults] :
          Commit(HandleResultOp(Self, task, outcome, dt[1], dt[2], inits))
    /\ UNCHANGED <<setup_vars, score_vars, side_vars>>

\* an abort initiated from outside the manager calls _tear_down()
ExternalAbort ==
    /\ started
    /\ aborts < MaxAborts
    /\ aborts' = aborts + 1
    /\ abort_in_flight' = IF tearing_down THEN abort_in_flight
                          ELSE abort_in_flight \cup scheduled
    /\ Commit(TearDown([Self EXCEPT !.events = Append(@, <<"abort", 0>>)]))
    /\ UNCHANGED <<id_count, tests, registered, started, score_vars, side_vars>>

Next ==
    \/ NewTest
    \/ RegisterTest
    \/ FilterTests
    \/ StartRegression
    \/ HandleResult
    \/ ExternalAbort

Spec == Init /\ [][Next]_vars

\* The regression with the queue as registered: filter_tests, which only
\* takes tests out of the queue before the start, is left out.
NextLive ==
    \/ NewTest
    \/ RegisterTest
    \/ StartRegression
    \/ HandleResult
    \/ ExternalAbort

\* The step in which the scheduler delivers the completion of a unit: the
\* HandleResult steps are the steps that append to `completed`, and one is
\* possible exactly when a unit is with the scheduler.
Completion ==
    \E task \in scheduled, outcome \in RunOutcomes :
        completed' = Append(completed, <<task, outcome>>)

\* The scheduler completes every unit it was handed: a completion that stays
\* possible is eventually delivered to _handle_result.
Fairness == WF_completed(Completion)

SpecLive == Init /\ [][NextLive]_vars /\ Fairness

\* ------------------------------------------------- the scorer on its own
ScoreTests == {Test(0, 0, FALSE, ef, ee) :
                   ef \in BOOLEAN, ee \in SUBSET DeclarableErrors}

InitScore ==
    /\ InitManager
    /\ sc_test \in ScoreTests
    /\ sc_outcome \in Outcomes
    /\ sc_result = NoScore
    /\ InitSide

\* _score_test(sc_test, sc_outcome)
Score ==
    /\ sc_result = NoScore
    /\ sc_result' = ScoreTest(sc_test, sc_outcome)
    /\ UNCHANGED <<mgr_vars, setup_vars, sc_test, sc_outcome, side_vars>>

NextScore == Score

SpecScore == InitScore /\ [][NextScore]_vars

\* ------------------------------------- discovery and filtering on their own
\* a module: whether it has a __cocotb_tests__ collection, and the tests it
\* declares, in source order
TestDecls == {[stage |-> st, skip |-> FALSE, expect_fail |-> FALSE,
               expect_error |-> {}] : st \in StageValues}
DeclSeqs == UNION {[1..n -> TestDecls] : n \in 0..MaxModuleTests}
ModuleContents ==
    {[has_tests |-> FALSE, decls |-> <<>>]}
        \cup {[has_tests |-> TRUE, decls |-> ds] : ds \in DeclSeqs}
ModuleLists == UNION {[1..n -> ModuleContents] : n \in 0..MaxModules}

InitSetup ==
    /\ InitManager
    /\ sc_test = NoTest /\ sc_outcome = "Value" /\ sc_result = NoScore
    /\ modules \in ModuleLists /\ discover_done = FALSE
    /\ ft_before = <<>> /\ ft_filters = {} /\ ft_calls = 0
    /\ InitFactoryVars(NoKwargs)
    /\ InitPure

\* discover_tests(*modules)
DiscoverTests ==
    /\ ~discover_done
    /\ discover_done' = TRUE
    /\ LET d == DiscoverTestsOp([m |-> Self, tests |-> tests,
                                 id_count |-> id_count], modules)
       IN  /\ Commit(d.m)
           /\ tests' = d.tests
           /\ id_count' = d.id_count
           /\ registered' = {d.m.test_queue[i].id : i \in 1..Len(d.m.test_queue)}
    /\ UNCHANGED <<modules, started, aborts, abort_in_flight, score_vars, pure_vars,
                   filter_vars, factory_vars>>

\* filter_tests(*filters), the call recorded
FilterCall ==
    /\ ft_calls < MaxFilterCalls
    /\ \E filters \in SUBSET Patterns :
          /\ ft_before' = test_queue
          /\ ft_filters' = filters
          /\ Commit(FilterTestsOp(Self, filters))
    /\ ft_calls' = ft_calls + 1
    /\ UNCHANGED <<setup_vars, score_vars, pure_vars, disc_vars, factory_vars>>

NextSetup ==
    \/ DiscoverTests
    \/ FilterCall

SpecSetup == InitSetup /\ [][NextSetup]_vars

\* ------------------------------------------------ _safe_divide on its own
Durations == 0..MaxDuration

InitSafeDivide ==
    /\ InitManager
    /\ sc_test = NoTest /\ sc_outcome = "Value" /\ sc_result = NoScore
    /\ InitCalls
    /\ InitFactoryVars(NoKwargs)
    /\ sd_a \in Durations /\ sd_b \in Durations /\ sd_result = NoRatio
    /\ InitWrapper(0)
    /\ InitClasses

\* _safe_divide(sd_a, sd_b)
Divide ==
    /\ sd_result = NoRatio
    /\ sd_result' = SafeDivide(sd_a, sd_b)
    /\ UNCHANGED <<mgr_vars, setup_vars, score_vars, disc_vars, filter_vars,
                   factory_vars, sd_a, sd_b, timeout_vars, class_vars>>

NextSafeDivide == Divide

SpecSafeDivide == InitSafeDivide /\ [][NextSafeDivide]_vars

\* -------------------------------------------- the timeout wrapper on its own
Timeouts == 1..MaxTimeout
\* what the original body can end with
InnerOutcomes ==
    {Returned(v) : v \in 0..1}
        \cup {Raised(k) : k \in {"AssertionError", "SimFailure", "SimTimeoutError"}}

InitTimeout ==
    /\ InitManager
    /\ sc_test = NoTest /\ sc_outcome = "Value" /\ sc_result = NoScore
    /\ InitCalls
    /\ InitFactoryVars(NoKwargs)
    /\ InitDivide
    /\ \E timeout_time \in Timeouts : InitWrapper(timeout_time)
    /\ InitClasses

Racing == tw_units[InnerUnit].status = "pending" /\ tw_first = "none"

timeout_rest == <<mgr_vars, setup_vars, score_vars, disc_vars, filter_vars,
                  factory_vars, divide_vars, class_vars, tw_timeout_time>>

\* await test.func(...): running_co = Task(co(...)) and the await of
\* with_timeout(running_co, timeout_time, timeout_unit) begins
InvokeWrapped ==
    /\ tw_units[InnerUnit].status = "none"
    /\ tw_units' = [tw_units EXCEPT ![InnerUnit] = Pending]
    /\ UNCHANGED <<timeout_rest, tw_now, tw_first, tw_kills, tw_outcome>>

\* simulated time advances while the race is open
TimeStep ==
    /\ Racing
    /\ tw_now < tw_timeout_time
    /\ tw_now' = tw_now + 1
    /\ UNCHANGED <<timeout_rest, tw_units, tw_first, tw_kills, tw_outcome>>

\* the race ends with `first` and the wrapper runs to its end
EndRace(units, first) ==
    LET w == WrappedFunc(units, first)
    IN  /\ tw_units' = w.units
        /\ tw_first' = first
        /\ tw_kills' = tw_kills \o w.kills
        /\ tw_outcome' = w.outcome

\* running_co finishes before the timer fires
InnerCompletes ==
    /\ Racing
    /\ \E o \in InnerOutcomes :
          EndRace([tw_units EXCEPT ![InnerUnit] =
                       [status |-> "finished", outcome |-> o]], InnerUnit)
    /\ UNCHANGED <<timeout_rest, tw_now>>

\* the timer fires before running_co finishes
TimerFires ==
    /\ Racing
    /\ tw_now = tw_timeout_time
    /\ EndRace(tw_units, "timer")
    /\ UNCHANGED <<timeout_rest, tw_now>>

\* another unit of the run finishes
OtherCompletes ==
    /\ \E u \in OtherUnits :
          /\ tw_units[u].status = "pending"
          /\ tw_units' = [tw_units EXCEPT ![u] =
                              [status |-> "finished", outcome |-> Returned(0)]]
    /\ UNCHANGED <<timeout_rest, tw_now, tw_first, tw_kills, tw_outcome>>

NextTimeout ==
    \/ InvokeWrapped
    \/ TimeStep
    \/ InnerCompletes
    \/ TimerFires
    \/ OtherCompletes

SpecTimeout == InitTimeout /\ [][NextTimeout]_vars

\* ------------------------------------- descriptor construction on its own
InitIds == InitManager /\ InitSide
           /\ sc_test = NoTest /\ sc_outcome = "Value" /\ sc_result = NoScore

\* cls(func=...): a descriptor of class cls is constructed
Construct ==
    /\ Len(constructed) < MaxConstructions
    /\ \E cls \in Classes :
          LET a == AssignId(class_id_count, cls)
          IN  /\ constructed' = Append(constructed, <<cls, a.id>>)
              /\ class_id_count' = a.counts
    /\ UNCHANGED <<mgr_vars, setup_vars, score_vars, disc_vars, filter_vars,
                   factory_vars, divide_vars, timeout_vars>>

NextIds == Construct

SpecIds == InitIds /\ [][NextIds]_vars

\* ---------------------------------------------- the TestFactory on its own
StrName(n) == [group |-> FALSE, names |-> <<n>>]
GroupName(ns) == [group |-> TRUE, names |-> ns]
\* the add_option calls of the model
AddOptionArgs ==
    {[name |-> StrName("a"), optionlist |-> << <<1>>, <<2>> >>],
     [name |-> StrName("a"), optionlist |-> << <<2>> >>],
     [name |-> StrName("a"), optionlist |-> << >>],
     [name |-> StrName("a"), optionlist |-> << <<1, 2>> >>],
     [name |-> StrName("b"), optionlist |-> << <<3>>, <<4>> >>],
     [name |-> StrName("b"), optionlist |-> << <<3>> >>],
     [name |-> GroupName(<<"a", "b">>), optionlist |-> << <<1, 3>>, <<2, 4>> >>],
     [name |-> GroupName(<<"a", "b">>), optionlist |-> << <<1, 3>>, <<2>> >>],
     [name |-> GroupName(<<"a", "b">>), optionlist |-> << <<1, 3, 4>> >>]}
\* the constant keyword arguments of the factory
ConstantKwargs == {NoKwargs, [n \in {"a"} |-> <<9>>], [n \in {"c"} |-> <<9>>]}

FactorySelf == [kwargs |-> factory.kwargs,
                kwargs_constant |-> factory.kwargs_constant, raised |-> NoError]

InitFactory ==
    /\ InitManager
    /\ sc_test = NoTest /\ sc_outcome = "Value" /\ sc_result = NoScore
    /\ InitCalls
    /\ \E kwargs_constant \in ConstantKwargs : InitFactoryVars(kwargs_constant)
    /\ InitPure

\* tf.add_option(name, optionlist)
AddOptionCall ==
    /\ tf_adds < MaxAddOptions
    /\ \E a \in AddOptionArgs :
          LET f == AddOption(FactorySelf, a.name, a.optionlist)
          IN  /\ factory' = [kwargs |-> f.kwargs,
                             kwargs_constant |-> f.kwargs_constant]
              /\ Commit([Self EXCEPT !.raised = f.raised])
              /\ tf_last_add' = a
    /\ tf_adds' = tf_adds + 1
    /\ UNCHANGED <<setup_vars, score_vars, pure_vars, disc_vars, filter_vars, glbs,
                   tf_generated, tf_gens>>

\* tf.generate_tests()
GenerateTestsCall ==
    /\ tf_gens < MaxGenerations
    /\ tf_gens' = tf_gens + 1
    /\ tf_generated' = GenerateTestsSeq(FactorySelf, id_count)
    /\ glbs' = GenerateTests(FactorySelf, glbs, id_count)
    /\ id_count' = id_count + Len(GenerateTestsSeq(FactorySelf, id_count))
    /\ UNCHANGED <<mgr_vars, tests, registered, started, aborts, abort_in_flight,
                   score_vars, pure_vars, disc_vars, filter_vars, factory, tf_last_add,
                   tf_adds>>

NextFactory ==
    \/ AddOptionCall
    \/ GenerateTestsCall

SpecFactory == InitFactory /\ [][NextFactory]_vars

\* ============================================================== claims
TestById(i) == tests[i + 1]
\* (stage, id) of a below (stage, id) of b, lexicographically
LexLess(a, b) == a.stage < b.stage \/ (a.stage = b.stage /\ a.id < b.id)
QueueSeq == [i \in 1..Len(test_queue) |-> test_queue[i].id]
LogNames == [i \in 1..Len(test_results) |-> test_results[i].test]
Positions(seq, x) == {i \in 1..Len(seq) : seq[i] = x}
Range(seq) == {seq[i] : i \in 1..Len(seq)}

\* C1 as stated: of two tests of a started regression, the one with the
\* smaller (stage, id) is popped first and has its result recorded first: the
\* ids popped so far, followed by those still queued, ascend in (stage, id),
\* and so do the tests of the result log.
C1_PoppedAndRecordedInOrder ==
    started =>
        /\ \A i, j \in 1..Len(popped \o QueueSeq) :
              i < j => LexLess(TestById((popped \o QueueSeq)[i]),
                               TestById((popped \o QueueSeq)[j]))
        /\ \A i, j \in 1..Len(test_results) :
              i < j => \E a, b \in 1..Len(tests) :
                          /\ tests[a].fullname = test_results[i].test
                          /\ tests[b].fullname = test_results[j].test
                          /\ LexLess(tests[a], tests[b])

\* C1 amended: T1 is popped before T2 iff (stage, id) of T1 is the smaller,
\* whatever the registration order; results are recorded in that order too,
\* except that the result of a unit that was in flight when an external abort
\* tore the regression down is recorded after the tests that abort drained.
C1_PoppedInOrder ==
    started =>
        /\ \A i, j \in 1..Len(popped \o QueueSeq) :
              i < j <=> LexLess(TestById((popped \o QueueSeq)[i]),
                                TestById((popped \o QueueSeq)[j]))
        /\ \A i, j \in 1..Len(test_results) :
              \A a, b \in 1..Len(tests) :
                  ( /\ tests[a].fullname = test_results[i].test
                    /\ tests[b].fullname = test_results[j].test
                    /\ tests[a].id \notin abort_in_flight
                    /\ tests[b].id \notin abort_in_flight )
                  => (i < j <=> LexLess(tests[a], tests[b]))

\* three tests registered against their (stage, id) order, all popped
C1_Witness ==
    /\ started /\ Len(popped) = 3 /\ Len(test_results) = 3
    /\ TestById(0).stage = 1 /\ TestById(1).stage = 0
    /\ popped = <<1, 2, 0>>

\* C2: at most one unit is in flight, it is the unit of the current test and
\* the last one submitted; a step that submits a unit submits exactly one and
\* leaves no earlier unit in flight.
C2_OneInFlight ==
    /\ [](/\ Cardinality(scheduled) <= 1
          /\ scheduled # {} => /\ scheduled = {test_task}
                               /\ test_task = test.id
                               /\ submitted # <<>>
                               /\ submitted[Len(submitted)] = test_task)
    /\ [][Len(submitted') # Len(submitted) =>
              /\ Len(submitted') = Len(submitted) + 1
              /\ scheduled' = {submitted'[Len(submitted')]}
              /\ scheduled' \cap scheduled = {}]_vars

\* a second unit in flight after the first one completed
C2_Witness ==
    /\ Len(submitted) = 2 /\ scheduled = {submitted[2]}
    /\ Len(test_results) >= 1 /\ test_queue # <<>>

\* C3: however often _tear_down is invoked, the report is written once and
\* the simulator stopped once, the summary is emitted at most once, and an
\* invocation made once the latch is set changes nothing (but the count of
\* invocations).
C3_TearDownOnce ==
    /\ teardown_calls = 0 =>
          ~tearing_down /\ xunit_written = 0 /\ sim_stopped = 0 /\ summaries = 0
    /\ teardown_calls >= 1 =>
          tearing_down /\ xunit_written = 1 /\ sim_stopped = 1 /\ summaries <= 1
    /\ tearing_down => TearDown(Self) = [Self EXCEPT !.teardown_calls = @ + 1]

\* teardown entered by a fatal outcome, re-entered while draining, by the
\* empty queue and by an external abort
C3_Witness ==
    /\ teardown_calls >= 4 /\ aborts = 1 /\ drained # <<>>
    /\ fatal_mark # NoMark /\ abort_in_flight = {}
    /\ xunit_written = 1 /\ sim_stopped = 1 /\ summaries = 1

\* C4: once a SimFailure outcome was recorded, teardown has run (latch set,
\* queue drained, report written, simulator stopped) and no test body was
\* invoked and no unit submitted since.
C4_FatalTearsDown ==
    fatal_mark # NoMark =>
        /\ tearing_down /\ test_queue = <<>>
        /\ xunit_written = 1 /\ sim_stopped = 1
        /\ Len(invoked) = fatal_mark[1]
        /\ Len(submitted) = fatal_mark[2]

\* a unit ended in a SimFailure its test expected (scored PASS) with tests
\* still queued
C4_Witness ==
    /\ fatal_mark # NoMark /\ aborts = 0 /\ Len(drained) >= 1
    /\ \E i \in 1..Len(test_results) :
          /\ test_results[i].pass = "True" /\ test_results[i].real > 0
          /\ \E k \in 1..Len(tests) :
                /\ tests[k].fullname = test_results[i].test
                /\ tests[k].expect_error = {"Exception"}
                /\ tests[k].id \notin Range(drained)

\* C5 as stated: every test drained by teardown has exactly one result, with
\* zero times, and it is a failed one; the queue is empty after the drain.
C5_DrainedAllFailed ==
    /\ drained # <<>> => test_queue = <<>>
    /\ \A k \in 1..Len(drained) :
          LET at == Positions(LogNames, TestById(drained[k]).fullname)
          IN  /\ Cardinality(at) = 1
              /\ \A p \in at : /\ test_results[p].pass = "False"
                               /\ test_results[p].real = 0
                               /\ test_results[p].sim = 0

\* the tests a filter_tests call took out of the queue: registered, and
\* neither queued nor popped
ExcludedIds == registered \ (Range(QueueSeq) \cup Range(popped))
CaseNames == [i \in 1..Len(xunit) |-> xunit[i].name]

\* C6 as stated: after the start every test that filter_tests excluded has
\* exactly one case element, a skipped one with zero times, and was never
\* popped, invoked or submitted.
C6_ExcludedRecordedOnce ==
    started =>
        \A id \in ExcludedIds :
            LET at == Positions(CaseNames, TestById(id).fullname)
            IN  /\ Cardinality(at) = 1
                /\ \A p \in at : /\ xunit[p].skipped
                                 /\ xunit[p].time = 0
                                 /\ xunit[p].sim_time_ns = 0
                /\ id \notin Range(popped)
                /\ id \notin Range(invoked)
                /\ id \notin Range(submitted)

\* ------------------------------------------------ claims on _score_test
Scored == sc_result # NoScore
Classified == Scored /\ sc_result.raised = NoError
IsSuccess(outcome) == outcome \in {"Value", "TestSuccess"}
IsAssertionStyle(outcome) == outcome \in {"AssertionError", "Failed"}
\* the classes an exception of each kind is an instance of
InstanceOf(outcome, class) ==
    \/ outcome = class
    \/ class = "BaseException" /\ outcome # "Value"
    \/ class = "Exception" /\ outcome \in {"SimFailure", "AssertionError",
                                           "TypeError", "ValueError", "TestSuccess"}

\* C7: no expectations: a success is PASS and an assertion-style failure is
\* FAIL; with expect_fail an assertion-style failure is PASS; never fatal.
C7_PlainAndExpectFail ==
    Scored =>
        /\ (~sc_test.expect_fail /\ sc_test.expect_error = {} /\ IsSuccess(sc_outcome))
              => (sc_result.raised = NoError /\ sc_result.pass
                  /\ ~sc_result.sim_failed)
        /\ (~sc_test.expect_fail /\ sc_test.expect_error = {}
                /\ IsAssertionStyle(sc_outcome))
              => (sc_result.raised = NoError /\ ~sc_result.pass
                  /\ ~sc_result.sim_failed)
        /\ (sc_test.expect_fail /\ IsAssertionStyle(sc_outcome))
              => (sc_result.raised = NoError /\ sc_result.pass
                  /\ ~sc_result.sim_failed)

C7_Witness ==
    /\ Scored /\ sc_test.expect_fail /\ sc_test.expect_error = {}
    /\ sc_outcome = "AssertionError" /\ sc_result.pass /\ ~sc_result.sim_failed

C9_ExpectFailOnlyAssertions ==
    (Classified /\ sc_test.expect_fail /\ sc_test.expect_error = {}) =>
        (sc_result.pass <=> IsAssertionStyle(sc_outcome))

C9_Witness ==
    /\ Classified /\ sc_test.expect_fail /\ sc_test.expect_error = {}
    /\ sc_outcome = "TypeError" /\ ~sc_result.pass

\* C10: a SimFailure outcome is fatal whatever the expectations, and PASS
\* exactly when a declared expect_error class matches it; no other outcome
\* is fatal.
C10_FatalIffSimFailure ==
    Scored =>
        /\ sc_outcome = "SimFailure" =>
              /\ sc_result.raised = NoError /\ sc_result.sim_failed
              /\ sc_result.pass <=>
                    (\E class \in sc_test.expect_error :
                         InstanceOf("SimFailure", class))
        /\ sc_outcome # "SimFailure" => ~sc_result.sim_failed

C10_Witness ==
    /\ Scored /\ sc_outcome = "SimFailure" /\ sc_test.expect_fail
    /\ sc_test.expect_error = {"Exception"}
    /\ sc_result.pass /\ sc_result.sim_failed

\* ---------------------------------------------------- claims on seeding
\* C11: every seed installed by _init_test is the global seed plus the
\* digest of the test's fullname, whatever was registered, filtered, skipped
\* or run before; seeds are installed for exactly the tests that initialized,
\* and tests with different fullnames get different seeds.
C11_SeedFromGlobalSeedAndName ==
    /\ \A k \in 1..Len(seeded) :
          seeded[k][2] = RANDOM_SEED + Sha1Int(TestById(seeded[k][1]).fullname)
    /\ \A j, k \in 1..Len(seeded) :
          TestById(seeded[j][1]).fullname # TestById(seeded[k][1]).fullname
              => seeded[j][2] # seeded[k][2]
    /\ [k \in 1..Len(seeded) |-> seeded[k][1]] = submitted

C11_Witness ==
    /\ RANDOM_SEED = 4 /\ Len(seeded) = 2 /\ skipped = 1
    /\ seeded[2][1] = 2 /\ Len(test_results) = 3

\* --------------------------------------- claims on initialization failures
ResultsFor(name) == {i \in 1..Len(test_results) : test_results[i].test = name}
\* a test's declared expectations cover an exception of the given kind
Expects(t, kind) ==
    \/ \E class \in t.expect_error : InstanceOf(kind, class)
    \/ t.expect_fail /\ IsAssertionStyle(kind)
InitFailureKinds == {init_failed[k][2] : k \in 1..Len(init_failed)}
CompletedOutcomes == {completed[k][2] : k \in 1..Len(completed)}
\* the regression goes on: a unit is in flight, or every test was taken
\* from the queue and the regression was torn down
GoesOn ==
    /\ drained = <<>>
    /\ started => (scheduled # {} \/ (test_queue = <<>> /\ tearing_down))
    /\ \A k \in 1..Len(popped) :
          ~TestById(popped[k]).skip => popped[k] \in Range(invoked)

DeclaredInitFailure(k) ==
    \E class \in TestById(init_failed[k][1]).expect_error :
        InstanceOf(init_failed[k][2], class)
PositionIn(seq, x) == CHOOSE p \in 1..Len(seq) : seq[p] = x
\* the test taken from the queue after test id, if any, was not failed by
\* the teardown drain
NextNotDrained(id) ==
    LET p == PositionIn(popped, id)
    IN  p < Len(popped) => popped[p + 1] \notin Range(drained)
PassedAtInit(id) ==
    /\ Cardinality(ResultsFor(TestById(id).fullname)) = 1
    /\ \A i \in ResultsFor(TestById(id).fullname) :
          /\ test_results[i].pass = "True"
          /\ test_results[i].sim = 0 /\ test_results[i].real = 0
    /\ \A i \in 1..Len(xunit) :
          xunit[i].name = TestById(id).fullname => ~xunit[i].failure

Reraised == {"KeyboardInterrupt", "SystemExit"}
\* the result a completed unit's outcome is scored to
ScoredAs(t, outcome) ==
    IF IsSuccess(outcome)
    THEN (IF ~t.expect_fail /\ t.expect_error = {} THEN "True" ELSE "False")
    ELSE (IF Expects(t, outcome) THEN "True" ELSE "False")

\* C14 as stated: whatever a unit's outcome, _handle_result records exactly
\* one result for its test and nothing is raised out of the manager.
C14_NothingPropagates ==
    /\ escaped = {}
    /\ \A k \in 1..Len(completed) :
          Cardinality(ResultsFor(TestById(completed[k][1]).fullname)) = 1

\* C14 amended: for every outcome but KeyboardInterrupt and SystemExit,
\* _handle_result records exactly one scored result for the test and returns
\* normally; KeyboardInterrupt and SystemExit are raised again by _score_test
\* and leave the manager, with no result recorded.
C14_OnlyInterruptsPropagate ==
    /\ escaped \subseteq Reraised
    /\ escaped \subseteq CompletedOutcomes
    /\ \A k \in 1..Len(completed) :
          LET t == TestById(completed[k][1])
          IN  IF completed[k][2] \in Reraised
              THEN ResultsFor(t.fullname) = {}
              ELSE /\ Cardinality(ResultsFor(t.fullname)) = 1
                   /\ \A i \in ResultsFor(t.fullname) :
                         test_results[i].pass = ScoredAs(t, completed[k][2])

\* two units completed, the first with a failed assertion, the second with a
\* SimFailure; both are recorded and nothing was raised out of the manager
C14_Witness ==
    /\ Len(completed) = 2 /\ completed[1][2] = "AssertionError"
    /\ completed[2][2] = "SimFailure" /\ escaped = {}
    /\ Len(test_results) >= 2 /\ failures >= 2

\* ------------------------------------------- claims on discover_tests
\* a referenced module exports no tests: it has no collection or an empty one
ExportsNoTests(mod) == ~mod.has_tests \/ mod.decls = <<>>

\* C15 as stated: discover_tests fails when a referenced module exports no
\* tests, and when no test was found after all modules were processed, and
\* then no test has been initialized or executed.
C15_DiscoveryFails ==
    discover_done =>
        /\ (\E i \in 1..Len(modules) : ExportsNoTests(modules[i]))
              => escaped # {}
        /\ registered = {} => escaped # {}
        /\ escaped # {} => (invoked = <<>> /\ submitted = <<>> /\ ~tearing_down)

\* ---------------------------------------------- claims on filter_tests
IsMatched(t) == \E f \in ft_filters : t.fullname \in f
IsNotMatched(t) == ~IsMatched(t)

\* the state filter_tests returns in, ft_before being the queue it was
\* called on and ft_filters its patterns
Partitioned ==
        /\ test_queue = SelectSeq(ft_before, IsMatched)
        /\ filtered_tests = SelectSeq(ft_before, IsNotMatched)
        /\ Range(test_queue) \cup Range(filtered_tests) = Range(ft_before)
        /\ Range(test_queue) \cap Range(filtered_tests) = {}
        /\ Len(test_queue) + Len(filtered_tests) = Len(ft_before)
        /\ ft_filters = {} => (test_queue = <<>> /\ filtered_tests = ft_before)
        /\ escaped \subseteq {NoTestsInModule, NoTestsInAnyModule}

\* C16: after filter_tests the queue holds the tests of the previous queue
\* that match at least one pattern, in their previous order, the excluded
\* list holds the others, every test of the previous queue is in exactly one
\* of the two; with no pattern every test is excluded; no error is raised.
C16_FilterPartitions ==
    [][ft_calls' # ft_calls => (ft_before' = test_queue /\ Partitioned')]_vars

\* two patterns kept the first and the last of three queued tests
C16_Witness ==
    /\ ft_calls = 1 /\ Len(ft_before) = 3 /\ Cardinality(ft_filters) = 2
    /\ test_queue = <<ft_before[1], ft_before[3]>>
    /\ filtered_tests = <<ft_before[2]>>

\* C17 as stated: start_regression on a queue that filtering left empty
\* submits no unit and tears down in that call (report written, simulator
\* stopped), after recording every test that filter_tests excluded.
C17_EmptyQueueTornDownAtStart ==
    (started /\ ntests = 0) =>
        /\ escaped = {} /\ invoked = <<>> /\ submitted = <<>>
        /\ tearing_down /\ xunit_written = 1 /\ sim_stopped = 1
        /\ \A id \in registered :
              /\ Cardinality(Positions(CaseNames, TestById(id).fullname)) = 1
              /\ \A p \in Positions(CaseNames, TestById(id).fullname) :
                    xunit[p].skipped

\* ---------------------------------------------- claims on TestFactory
OptionCount == Len(factory.kwargs)
OptionList(j) == factory.kwargs[j].optionlist
OptionNames(j) ==
    {factory.kwargs[j].name.names[i] : i \in 1..Len(factory.kwargs[j].name.names)}
\* the number of product elements over the options after the j-th
Stride[j \in 0..OptionCount] ==
    IF j = OptionCount THEN 1 ELSE Len(OptionList(j + 1)) * Stride[j + 1]
\* the value the j-th option has in the k-th product element (k from 1),
\* the last registered option varying fastest
ChosenValue(k, j) ==
    OptionList(j)[(((k - 1) \div Stride[j]) % Len(OptionList(j))) + 1]
\* the keyword argument n of the k-th generated test: set by the last
\* registered option naming n, else a constant argument of the factory
ExpectedArgument(k, n) ==
    IF \E j \in 1..OptionCount : n \in OptionNames(j)
    THEN LET j == CHOOSE j \in 1..OptionCount :
                      /\ n \in OptionNames(j)
                      /\ \A later \in (j + 1)..OptionCount : n \notin OptionNames(later)
             name == factory.kwargs[j].name
         IN  IF ~name.group THEN ChosenValue(k, j)
             ELSE LET i == CHOOSE i \in 1..Len(name.names) :
                               /\ name.names[i] = n
                               /\ \A after \in (i + 1)..Len(name.names) :
                                     name.names[after] # n
                  IN  <<ChosenValue(k, j)[i]>>
    ELSE factory.kwargs_constant[n]
ThreeDigits(k) == <<k \div 100, (k \div 10) % 10, k % 10>>
\* the state generate_tests returns in
GeneratedAsProduct ==
    /\ Len(tf_generated) = Stride[0]
    /\ \A k \in 1..Len(tf_generated) :
          /\ tf_generated[k].name.text = <<"", TestFunctionName, "", "_">>
          /\ tf_generated[k].name.number = ThreeDigits(k)
          /\ DOMAIN tf_generated[k].kwargs =
                 DOMAIN factory.kwargs_constant
                     \cup UNION {OptionNames(j) : j \in 1..OptionCount}
          /\ \A n \in DOMAIN tf_generated[k].kwargs :
                tf_generated[k].kwargs[n] = ExpectedArgument(k, n)
    /\ Len(glbs.cocotb_tests) >= Len(tf_generated)
    /\ SubSeq(glbs.cocotb_tests,
              Len(glbs.cocotb_tests) - Len(tf_generated) + 1,
              Len(glbs.cocotb_tests)) = tf_generated

\* C18: generate_tests yields one test per element of the cartesian product
\* of the registered options, in registration order with the last option
\* varying fastest; the k-th test is named base name, "_", k padded to three
\* digits, and gets the k-th element as keyword arguments, tuples of names
\* split into their names.
C18_GeneratesProduct ==
    [][tf_gens' # tf_gens => GeneratedAsProduct']_vars

\* options a: [1, 2] then b: [3, 4] gave (a=1, b=3), (a=1, b=4), (a=2, b=3),
\* (a=2, b=4), named _001 to _004
C18_Witness ==
    /\ tf_gens = 1
    /\ factory.kwargs = <<[name |-> StrName("a"), optionlist |-> << <<1>>, <<2>> >>],
                          [name |-> StrName("b"), optionlist |-> << <<3>>, <<4>> >>]>>
    /\ factory.kwargs_constant = NoKwargs
    /\ Len(tf_generated) = 4
    /\ \A k \in 1..4 : tf_generated[k].name.number = <<0, 0, k>>
    /\ tf_generated[1].kwargs = [n \in {"a", "b"} |-> IF n = "a" THEN <<1>> ELSE <<3>>]
    /\ tf_generated[2].kwargs = [n \in {"a", "b"} |-> IF n = "a" THEN <<1>> ELSE <<4>>]
    /\ tf_generated[3].kwargs = [n \in {"a", "b"} |-> IF n = "a" THEN <<2>> ELSE <<3>>]
    /\ tf_generated[4].kwargs = [n \in {"a", "b"} |-> IF n = "a" THEN <<2>> ELSE <<4>>]

\* the add_option arguments name N options and list an entry whose length
\* is not N
ArityMismatch(a) ==
    /\ a.name.group
    /\ \E i \in 1..Len(a.optionlist) : Len(a.optionlist[i]) # Len(a.name.names)

\* C19: add_option with a tuple of N names and an entry of another length
\* raises ValueError in that call and leaves the registered options (and
\* everything generated) as they were.
C19_ArityCheckedAtRegistration ==
    [][(tf_adds' # tf_adds /\ ArityMismatch(tf_last_add'))
          => /\ "ValueError" \in escaped'
             /\ factory' = factory
             /\ glbs' = glbs /\ tf_generated' = tf_generated]_vars

\* a mismatched group was refused after an option had been registered
C19_Witness ==
    /\ tf_adds = 2 /\ ArityMismatch(tf_last_add) /\ "ValueError" \in escaped
    /\ Len(factory.kwargs) = 1 /\ tf_gens = 0

\* C20 as stated: generation does not fail, and afterwards the module's
\* registration holds, under every generated name, exactly one test: the
\* one generated last.
C20_LaterRegistrationOverwrites ==
    tf_gens > 0 =>
        /\ escaped \subseteq {"ValueError"}
        /\ \A name \in DOMAIN glbs.names :
              LET at == {i \in 1..Len(glbs.cocotb_tests) :
                            glbs.cocotb_tests[i].name = name}
              IN  /\ Cardinality(at) = 1
                  /\ \A i \in at : glbs.cocotb_tests[i] = glbs.names[name]


\* ---------------------------------------------- claims on _safe_divide
Divided == sd_result # NoRatio

\* C21: the ratio is the simulated duration divided by the wall-clock
\* duration; with a zero wall-clock duration it is NaN when the simulated
\* duration is zero too and positive infinity otherwise; with a zero
\* simulated duration and a nonzero wall-clock duration it is 0; the
\* computation always returns a value.
C21_RatioDefinedEverywhere ==
    Divided =>
        /\ sd_result.kind \in {"num", "nan", "inf"}
        /\ sd_b # 0 =>
              sd_result = [kind |-> "num", num |-> sd_a, den |-> sd_b]
        /\ (sd_b = 0 /\ sd_a = 0) => sd_result.kind = "nan"
        /\ (sd_b = 0 /\ sd_a # 0) => sd_result.kind = "inf"
        /\ (sd_b # 0 /\ sd_a = 0) =>
              (sd_result.kind = "num" /\ sd_result.num = 0)

C21_Witness == Divided /\ sd_b = 0 /\ sd_a # 0 /\ sd_result.kind = "inf"


\* ------------------------------------------- claims on the timeout wrapper
RaceOver == tw_first # "none"
KilledUnits == {u \in Units : tw_units[u].status = "killed"}

\* C22: the wrapper races the inner unit against the timer. When the timer
\* fires first the inner unit is cancelled and the wrapper ends with the
\* timeout failure; when the inner unit completes first the wrapper ends
\* with exactly the inner unit's outcome and the inner unit is not
\* cancelled. No unit other than the inner unit is ever cancelled.
C22_TimeoutRace ==
    /\ (tw_first = "timer") =>
          /\ tw_units[InnerUnit].status = "killed"
          /\ tw_outcome = Raised("SimTimeoutError")
    /\ (tw_first = InnerUnit) =>
          /\ tw_units[InnerUnit].status = "finished"
          /\ tw_outcome = tw_units[InnerUnit].outcome
    /\ ~RaceOver => tw_outcome = NoOutcome
    /\ KilledUnits \subseteq {InnerUnit}
    /\ \A k \in 1..Len(tw_kills) : tw_kills[k] = InnerUnit

C22_Witness ==
    /\ tw_first = "timer"
    /\ tw_units[InnerUnit].status = "killed"
    /\ \E u \in OtherUnits : tw_units[u].status = "pending"


\* ------------------------------------------------ claims on descriptor ids
\* C23: every descriptor constructed in the process gets an id different
\* from every other descriptor's and strictly greater than the id of every
\* descriptor constructed before it.
C23_IdsStrictlyIncrease ==
    \A i \in 1..Len(constructed) : \A j \in 1..Len(constructed) :
        i < j => constructed[i][2] < constructed[j][2]

\* ------------------------------------------------- claims on the report
\* the regression is over: torn down, and no unit is left with the scheduler
RunOver == tearing_down /\ scheduled = {}
CasesFor(id) == Positions(CaseNames, TestById(id).fullname)
LoggedAs(id, pass) ==
    \E q \in ResultsFor(TestById(id).fullname) : test_results[q].pass = pass

\* C24: every test of the run has exactly one case element in the report;
\* the element has a failure element, naming the global seed, exactly when
\* the test was scored FAIL, and a skipped marker exactly when the test was
\* skipped or excluded.
C24_OneCasePerTest ==
    RunOver =>
        \A id \in registered :
            /\ Cardinality(CasesFor(id)) = 1
            /\ \A p \in CasesFor(id) :
                  /\ xunit[p].failure <=> LoggedAs(id, "False")
                  /\ xunit[p].failure => xunit[p].message = RANDOM_SEED
                  /\ xunit[p].skipped <=>
                        (LoggedAs(id, "None") \/ id \in ExcludedIds)

\* --------------------------------------------------- claims on termination
\* the regression was torn down: nothing is queued, the report was written
\* and the simulator was told to stop
TornDown ==
    /\ tearing_down
    /\ test_queue = <<>>
    /\ xunit_written = 1
    /\ sim_stopped = 1
\* an exception that _score_test re-raises has left _handle_result
Interrupted == escaped \cap Reraised # {}

IsPrefix(a, b) == Len(a) <= Len(b) /\ SubSeq(b, 1, Len(a)) = a
NoDuplicates(seq) == \A i, j \in 1..Len(seq) : seq[i] = seq[j] => i = j
\* the ids of the tests of the result log, in log order
LogIds == [i \in 1..Len(test_results) |-> test_results[i].test[2]]
LogEntries(id) == {q \in 1..Len(test_results) : LogIds[q] = id}
\* the tests whose unit ended with an exception that _score_test re-raises
InterruptedIds ==
    {completed[k][1] : k \in {n \in 1..Len(completed) : completed[n][2] \in Reraised}}
\* the log lists the tests in the order in which they were popped, leaving
\* out of the comparison the tests in `late`
LogInPopOrder(late) ==
    \A i, j \in 1..Len(test_results) :
        (i < j /\ LogIds[i] \notin late /\ LogIds[j] \notin late)
            => \E a, b \in 1..Len(popped) :
                  a < b /\ popped[a] = LogIds[i] /\ popped[b] = LogIds[j]
\* a step pops from the head of the queue and appends to the log, nothing else
QueueAndLogStep ==
    /\ IsPrefix(test_results, test_results')
    /\ IsPrefix(popped, popped')
    /\ started => popped' \o QueueSeq' = popped \o QueueSeq

EventsAt(kind) == {p \in 1..Len(events) : events[p][1] = kind}
ResultAt(id) == {p \in 1..Len(events) : events[p] = <<"result", id>>}
\* the tests that ended with a failure of the simulator, when their body was
\* invoked or when their unit completed
SimFailedIds ==
    {completed[k][1] : k \in {n \in 1..Len(completed) :
                                IsInstance(ScoreResult(completed[n][2]), {"SimFailure"})}}
      \cup {init_failed[k][1] : k \in {n \in 1..Len(init_failed) :
                                         IsInstance(init_failed[n][2], {"SimFailure"})}}
\* the tests whose fatal outcome was recorded before the simulator was stopped
TriggerIds ==
    {id \in SimFailedIds : \E p \in ResultAt(id) : \A s \in EventsAt("stop") : p < s}

\* C27: teardown records the result of the test whose fatal outcome triggered
\* it, then the result of every drained test, then emits the summary, then
\* writes the report, then stops the simulator; no result is recorded
\* between the summary and the stop. (No summary is emitted for an empty
\* result log.)
C27_TeardownOrder ==
    /\ Cardinality(EventsAt("summary")) <= 1
    /\ Cardinality(EventsAt("write")) = (IF tearing_down THEN 1 ELSE 0)
    /\ Cardinality(EventsAt("stop")) = (IF tearing_down THEN 1 ELSE 0)
    /\ \A w \in EventsAt("write") :
          (\E p \in EventsAt("result") : p < w) => EventsAt("summary") # {}
    /\ \A su \in EventsAt("summary") : su + 1 \in EventsAt("write")
    /\ \A w \in EventsAt("write") : w + 1 \in EventsAt("stop")
    /\ \A k \in 1..Len(drained) :
          /\ \E p \in ResultAt(drained[k]) : \A w \in EventsAt("write") : p < w
          /\ \A f \in TriggerIds :
                \E p \in ResultAt(f), q \in ResultAt(drained[k]) : p < q
          /\ k > 1 =>
                \E p \in ResultAt(drained[k - 1]), q \in ResultAt(drained[k]) : p < q

C27_Witness ==
    /\ tearing_down
    /\ aborts = 0
    /\ Len(drained) = 2
    /\ TriggerIds # {}
    /\ EventsAt("summary") = {4}
    /\ EventsAt("stop") = {6}

\* --------------------------------------------------- claims on _execute
\* the tests recorded as skipped
SkippedIds == {LogIds[q] : q \in {n \in 1..Len(test_results) :
                                    test_results[n].pass = "None"}}
InitFailedIds == {init_failed[k][1] : k \in 1..Len(init_failed)}
\* what every call of _execute leaves behind: the tests it popped are
\* recorded, but for the one it submitted, which is the last one it popped;
\* a test with the skip flag taken by _execute is recorded as skipped, its
\* body not invoked, and counted by `skipped` alone; a test whose body fails
\* when invoked is recorded and not submitted
ExecuteLoop ==
    /\ Cardinality(scheduled) <= 1
    /\ (scheduled # {} /\ ~tearing_down) => scheduled = {popped[Len(popped)]}
    /\ \A k \in 1..Len(popped) :
          LET id == popped[k]
          IN  /\ (TestById(id).skip /\ id \notin Range(drained)) =>
                    /\ id \in SkippedIds
                    /\ id \notin Range(invoked)
                    /\ id \notin Range(submitted)
              /\ id \in InitFailedIds =>
                    /\ id \notin Range(submitted)
                    /\ Cardinality(LogEntries(id)) = 1
    /\ skipped = Cardinality(SkippedIds)
    /\ passed + failures = Len(test_results) - Cardinality(SkippedIds)
\* _execute returned after submitting a unit, or after the teardown it
\* called on finding the queue empty
Suspended == Cardinality(scheduled) = 1
TornDownOnEmptyQueue == tearing_down /\ test_queue = <<>>

Counted == passed + failures + skipped
LoggedWith(pass) == {q \in 1..Len(test_results) : test_results[q].pass = pass}
\* the summary was emitted by a teardown the manager entered itself: no
\* abort from outside came before it
OwnTeardownAt(su) == \A a \in EventsAt("abort") : su < a

\* C29: after the start passed + failures + skipped = count - 1 = the length
\* of the result log <= ntests, every result being counted by exactly one of
\* the three counters; the summary of a teardown that the manager entered
\* itself is emitted with passed + failures + skipped = ntests; excluded
\* tests are counted by none of the counters.
C29_CountersMatchLog ==
    started =>
        /\ Counted = count - 1
        /\ Counted = Len(test_results)
        /\ Counted <= ntests
        /\ passed = Cardinality(LoggedWith("True"))
        /\ failures = Cardinality(LoggedWith("False"))
        /\ skipped = Cardinality(LoggedWith("None"))
        /\ \A su \in EventsAt("summary") :
              OwnTeardownAt(su) => events[su][2] = ntests
        /\ \A id \in ExcludedIds : LogEntries(id) = {}

C29_Witness ==
    /\ started /\ tearing_down
    /\ aborts = 0
    /\ ntests = 2
    /\ ExcludedIds # {}
    /\ passed = 1 /\ skipped = 1
    /\ \E su \in EventsAt("summary") : events[su][2] = 2

\* --------------------------------------------- claims on the torn down manager
\* the result log and the counters
Tally == <<test_results, passed, failures, skipped, count>>
\* a unit's completion is delivered and its outcome is scored
ScoredCompletion ==
    /\ Len(completed') = Len(completed) + 1
    /\ completed'[Len(completed')][2] \notin Reraised

\* C30 as stated: once the regression is torn down (report written, stop
\* signalled) no later event changes the result log or the counters.
C30_FrozenAfterTearDown ==
    [][TornDown => Tally' = Tally]_vars

\* C30: once the regression is torn down no later event changes the result
\* log or the counters, but for the completion callback of the unit that was
\* in flight when an abort from outside tore the regression down: it appends
\* that test's result and counts it.
C30_FrozenButForLateCompletion ==
    [][TornDown =>
         IF ScoredCompletion
         THEN /\ completed'[Len(completed')][1] \in abort_in_flight
              /\ Len(test_results') = Len(test_results) + 1
              /\ IsPrefix(test_results, test_results')
              /\ LogIds'[Len(test_results')] = completed'[Len(completed')][1]
              /\ count' = count + 1
              /\ Counted' = Counted + 1
         ELSE Tally' = Tally
      ]_vars

C30_Witness ==
    /\ TornDown
    /\ abort_in_flight # {}
    /\ Len(drained) = 2
    /\ Len(test_results) = 3
    /\ LogIds[3] \in abort_in_flight
    /\ scheduled = {}

\* ------------------------------------------------------ claims on the drain
DrainedIds == Range(drained)
\* the tests with the skip flag that _execute took from the queue
SkipFlaggedNotDrained ==
    {id \in Range(popped) \ DrainedIds : TestById(id).skip}

\* C31: a test that teardown drains is recorded through the scorer with a
\* failure of the simulator as its outcome, whether its skip flag is set or
\* not: it is counted by passed or failures and never as skipped, the
\* skipped counter counts only the skipped tests that were not drained, and
\* the body of no drained test is invoked.
C31_DrainIgnoresSkip ==
    /\ \A d \in DrainedIds :
          /\ d \notin SkippedIds
          /\ Cardinality(LogEntries(d)) = 1
          /\ \A q \in LogEntries(d) :
                /\ test_results[q].pass \in {"True", "False"}
                /\ test_results[q].pass = ScoredAs(TestById(d), "SimFailure")
          /\ d \notin Range(invoked)
          /\ d \notin Range(submitted)
    /\ skipped = Cardinality(SkipFlaggedNotDrained)
    /\ passed + failures = Len(test_results) - Cardinality(SkipFlaggedNotDrained)

C31_Witness ==
    /\ \E d \in DrainedIds : TestById(d).skip
    /\ Len(drained) = 2
    /\ skipped = 0
    /\ failures = 3

\* ------------------------------------------- claims on tests before the run
\* the excluded list
FilteredIds == {filtered_tests[i].id : i \in 1..Len(filtered_tests)}

\* C32: before the start, whatever register_test and filter_tests calls were
\* made, every registered test is in the pending queue or in the excluded
\* list, and in one of them only.
C32_NoRegisteredTestLost ==
    ~started =>
        /\ registered = Range(QueueSeq) \cup FilteredIds
        /\ Range(QueueSeq) \cap FilteredIds = {}

====
